---- MODULE Spec2Model ----
(***************************************************************************)
(* State-machine model of atc_ble.parser.ATCBluetoothDeviceData: one       *)
(* decoder session that is fed BLE advertisements.                         *)
(*                                                                         *)
(* Representation                                                          *)
(*   bytes            sequences of integers 0..255                         *)
(*   str              sequences of one-character strings                   *)
(*   None / a value   <<>> / <<value>>                                     *)
(*   measurements     exact values in fixed units: temperature in 1/100    *)
(*                    degree C, humidity in 1/100 percent, voltage in      *)
(*                    1/1000 V, battery in percent                         *)
(***************************************************************************)
EXTENDS Integers, Sequences, FiniteSets, TLC

VARIABLES
    platform,           \* sys.platform
    bindkey,            \* self.bindkey
    is_encrypted,       \* self.is_encrypted
    encrypted,          \* self.encrypted (None until the attribute is created)
    mac_known,          \* self.mac_known
    bindkey_verified,   \* self.bindkey_verified
    pending,            \* self.pending
    last_service_info,  \* self.last_service_info
    sensors,            \* values written by update_predefined_sensor
    title,              \* set_title
    device_name,        \* set_device_name
    sw_version,         \* set_device_sw_version (firmware label)
    manufacturer,       \* set_device_manufacturer
    device_type,        \* set_device_type
    trace,              \* what the last call of _start_update did, per payload
    hist                \* history of the session since construction

vars == <<platform, bindkey, is_encrypted, encrypted, mac_known,
          bindkey_verified, pending, last_service_info, sensors, title,
          device_name, sw_version, manufacturer, device_type, trace, hist>>

None == <<>>
Some(x) == <<x>>

-----------------------------------------------------------------------------
(* Bounds and input data *)

\* largest number of service-data entries in one advertisement
MaxPayloads == 2

Platforms == {"linux", "darwin"}

\* bytes.fromhex("b9ea895fac7eea6d30532432a516f3a3"), the key of the tests
Key1 == <<185, 234, 137, 95, 172, 126, 234, 109, 48, 83, 36, 50, 165, 22, 243, 163>>
\* another 16-byte key
Key2 == <<0, 17, 34, 51, 68, 85, 102, 119, 136, 153, 170, 187, 204, 221, 238, 255>>
\* a key that is not 16 bytes long
KeyShort == <<185, 234>>
Keys == {None, Some(Key1), Some(Key2), Some(KeyShort)}

\* "A4:C1:38:8D:18:B2"
AddrColon == <<"A","4",":","C","1",":","3","8",":","8","D",":","1","8",":","B","2">>
\* "A4:C1:38:8D:18:B3", the address of another device
AddrOther == <<"A","4",":","C","1",":","3","8",":","8","D",":","1","8",":","B","3">>
\* "A4-C1-38-8D-18-B2"
AddrDash == <<"A","4","-","C","1","-","3","8","-","8","D","-","1","8","-","B","2">>
\* "5F1A6B2C-8D3E-4F70-9A1B-2C3D4E5F6071", a CoreBluetooth identifier
AddrUuid == <<"5","F","1","A","6","B","2","C","-","8","D","3","E","-",
              "4","F","7","0","-","9","A","1","B","-",
              "2","C","3","D","4","E","5","F","6","0","7","1">>
\* "A4 C1 38 8D 18 B2": 17 characters, bytes.fromhex skips the spaces
AddrSpace == <<"A","4"," ","C","1"," ","3","8"," ","8","D"," ","1","8"," ","B","2">>
\* "AA:": address[2] is ":", so the text is kept and source_mac is one byte
AddrShort == <<"A","A",":">>
Addresses == {AddrColon, AddrOther, AddrDash, AddrUuid}

NameATC == <<"A","T","C">>
NameLYWSD == <<"L","Y","W","S","D">>

\* pvvx, not encrypted (15 bytes): test_atc_pvvx_no_encryption
P15 == <<178, 24, 141, 56, 193, 164, 89, 10, 173, 19, 182, 9, 31, 30, 5>>
\* atc1441, not encrypted (13 bytes): test_atc1441_no_encryption
P13 == <<164, 193, 56, 141, 24, 178, 1, 18, 47, 100, 12, 160, 37>>
\* pvvx, encrypted (11 bytes): test_atc_pvvx_with_encryption
P11 == <<17, 214, 3, 251, 250, 123, 109, 251, 30, 38, 253>>
\* P11 with the last bit of its tag flipped
P11bad == <<17, 214, 3, 251, 250, 123, 109, 251, 30, 38, 252>>
\* atc1441, encrypted (8 bytes): test_atc1441_with_encryption
P8 == <<88, 233, 230, 85, 101, 129, 179, 249>>
\* atc1441, encrypted under Key2 for A4:C1:38:8D:18:B2, plaintext 85 5E 32
P8k2 == <<88, 218, 59, 45, 34, 29, 100, 5>>
\* a payload of no known format
P5 == <<1, 2, 3, 4, 5>>

Payloads == {P15, P13, P11, P11bad, P8, P8k2, P5}
\* the payloads that advertisements with several service-data entries carry
MultiPayloads == {P13, P5}

RECURSIVE SeqsOfLen(_, _)
SeqsOfLen(S, n) ==
    IF n = 0 THEN {<<>>}
    ELSE {Append(q, x) : q \in SeqsOfLen(S, n - 1), x \in S}

\* service_info.service_data.values(), in the dict's order
ServiceDatas ==
    {<<>>} \cup {<<p>> : p \in Payloads}
           \cup UNION {SeqsOfLen(MultiPayloads, n) : n \in 2..MaxPayloads}

\* BluetoothServiceInfo: the fields the parser reads.  Every address with
\* every single payload; the device of the tests also under another name
\* and with no or several service-data entries; a space-delimited address
\* with the payloads of the multi-entry advertisements; a short address
\* with the encrypted payloads.
ServiceInfos ==
    {[address |-> a, name |-> NameATC, service_data |-> <<p>>] :
        a \in Addresses, p \in Payloads}
    \cup {[address |-> AddrColon, name |-> NameLYWSD, service_data |-> <<p>>] :
        p \in Payloads}
    \cup {[address |-> AddrColon, name |-> NameATC, service_data |-> sd] :
        sd \in ServiceDatas}
    \cup {[address |-> AddrSpace, name |-> NameATC, service_data |-> <<p>>] :
        p \in MultiPayloads}
    \cup {[address |-> AddrShort, name |-> NameATC, service_data |-> <<p>>] :
        p \in {P11, P8}}

-----------------------------------------------------------------------------
(* Python built-ins the parser uses *)

\* seq[::-1]
Reverse(s) == [i \in 1..Len(s) |-> s[Len(s) + 1 - i]]

\* seq[a:] with a >= 0
From(s, a) == SubSeq(s, a + 1, Len(s))

\* str.replace(old, "") for a one-character old
Remove(s, old) == LET keep(c) == c # old IN SelectSeq(s, keep)

HexDigits ==
    <<"0","1","2","3","4","5","6","7","8","9","A","B","C","D","E","F">>
HexLower == <<"0","1","2","3","4","5","6","7","8","9","a","b","c","d","e","f">>
HexChars == {HexDigits[i] : i \in 1..16} \cup {HexLower[i] : i \in 1..16}

\* the value of a hexadecimal digit
HexVal ==
    [c \in HexChars |->
        (CHOOSE i \in 1..16 : HexDigits[i] = c \/ HexLower[i] = c) - 1]

\* the characters Py_ISSPACE accepts: space, \t, \n, \r, \f and the
\* vertical tab \x0b (TLA+ has no escape for it: the last element holds
\* the character itself)
AsciiWhitespace == {" ", "\t", "\n", "\r", "\f", ""}

\* the loop of bytes.fromhex from position i on: whitespace is skipped
\* before each byte, the two digits of a byte are adjacent
RECURSIVE fromhex_scan(_, _, _)
fromhex_scan(s, i, acc) ==
    IF i > Len(s) THEN Some(acc)
    ELSE IF s[i] \in AsciiWhitespace THEN fromhex_scan(s, i + 1, acc)
    ELSE IF i + 1 > Len(s) \/ s[i] \notin HexChars \/ s[i + 1] \notin HexChars
    THEN None
    ELSE fromhex_scan(s, i + 2,
                      Append(acc, 16 * HexVal[s[i]] + HexVal[s[i + 1]]))

\* bytes.fromhex(s): None stands for the ValueError it raises
fromhex(s) == fromhex_scan(s, 1, <<>>)

\* struct.unpack fields
U16LE(b, i) == b[i] + 256 * b[i + 1]
U16BE(b, i) == 256 * b[i] + b[i + 1]
Signed16(u) == IF u >= 32768 THEN u - 65536 ELSE u
S16LE(b, i) == Signed16(U16LE(b, i))
S16BE(b, i) == Signed16(U16BE(b, i))

\* f"{name} ({identifier})"
FormatTitle(name, identifier) == name \o <<" ", "(">> \o identifier \o <<")">>

-----------------------------------------------------------------------------
(* The session object *)

SensorKeys == {"temperature", "humidity", "voltage", "battery"}

\* ATCBluetoothDeviceData.__init__(bindkey) on platform plat
init(plat, key) ==
    [bindkey           |-> key,
     is_encrypted      |-> FALSE,
     encrypted         |-> None,
     mac_known         |-> (plat # "darwin"),
     bindkey_verified  |-> FALSE,
     pending           |-> TRUE,
     last_service_info |-> None,
     sensors           |-> [k \in SensorKeys |-> None],
     title             |-> None,
     device_name       |-> None,
     sw_version        |-> None,
     manufacturer      |-> None,
     device_type       |-> None]

\* self.update_predefined_sensor(key, value)
update_predefined_sensor(s, key, value) ==
    [s EXCEPT !.sensors[key] = Some(value)]

-----------------------------------------------------------------------------
(* AES-CCM *)

\* The advertisements of the input data that AES-128-CCM (4-byte tag)
\* authenticates, with their plaintext: every other combination of a key,
\* an address and a payload of the input data fails its tag check.
CcmVectors ==
    {[key |-> Key1,
      nonce |-> <<178, 24, 141, 56, 193, 164, 14, 22, 26, 24, 17>>,
      aad |-> <<17>>, mac_len |-> 4,
      ct |-> <<214, 3, 251, 250, 123, 109>>, tag |-> <<251, 30, 38, 253>>,
      pt |-> <<41, 9, 77, 16, 61, 4>>],
     [key |-> Key1,
      nonce |-> <<178, 24, 141, 56, 193, 164, 11, 22, 26, 24, 88>>,
      aad |-> <<17>>, mac_len |-> 4,
      ct |-> <<233, 230, 85>>, tag |-> <<101, 129, 179, 249>>,
      pt |-> <<133, 94, 228>>],
     [key |-> Key2,
      nonce |-> <<178, 24, 141, 56, 193, 164, 11, 22, 26, 24, 88>>,
      aad |-> <<17>>, mac_len |-> 4,
      ct |-> <<218, 59, 45>>, tag |-> <<34, 29, 100, 5>>,
      pt |-> <<133, 94, 50>>]}

\* For every value b of 0..255, the length-8 payload that seals the
\* plaintext 85 5E b under Key1 for A4:C1:38:8D:18:B2 (entry b + 1); the
\* payload of test_atc1441_with_encryption is the one of b = 228.
BatteryPayloads ==
    <<
      <<88, 233, 230, 177, 41, 110, 39, 205>>, <<88, 233, 230, 176, 147, 11, 201, 33>>,
      <<88, 233, 230, 179, 45, 196, 162, 109>>, <<88, 233, 230, 178, 74, 161, 197, 219>>,
      <<88, 233, 230, 181, 128, 140, 26, 40>>, <<88, 233, 230, 180, 232, 241, 177, 35>>,
      <<88, 233, 230, 183, 15, 14, 42, 201>>, <<88, 233, 230, 182, 182, 86, 146, 232>>,
      <<88, 233, 230, 185, 150, 249, 25, 110>>, <<88, 233, 230, 184, 148, 171, 7, 246>>,
      <<88, 233, 230, 187, 188, 35, 209, 72>>, <<88, 233, 230, 186, 3, 37, 125, 144>>,
      <<88, 233, 230, 189, 201, 6, 79, 143>>, <<88, 233, 230, 188, 86, 145, 197, 192>>,
      <<88, 233, 230, 191, 56, 217, 197, 233>>, <<88, 233, 230, 190, 93, 180, 211, 0>>,
      <<88, 233, 230, 161, 201, 221, 83, 47>>, <<88, 233, 230, 160, 68, 218, 24, 23>>,
      <<88, 233, 230, 163, 97, 39, 150, 34>>, <<88, 233, 230, 162, 89, 195, 250, 32>>,
      <<88, 233, 230, 165, 174, 232, 179, 35>>, <<88, 233, 230, 164, 208, 238, 46, 2>>,
      <<88, 233, 230, 167, 107, 131, 115, 10>>, <<88, 233, 230, 166, 65, 7, 39, 155>>,
      <<88, 233, 230, 169, 68, 225, 154, 84>>, <<88, 233, 230, 168, 222, 108, 168, 2>>,
      <<88, 233, 230, 171, 20, 150, 253, 249>>, <<88, 233, 230, 170, 97, 86, 33, 251>>,
      <<88, 233, 230, 173, 124, 200, 28, 23>>, <<88, 233, 230, 172, 7, 119, 29, 47>>,
      <<88, 233, 230, 175, 105, 48, 74, 101>>, <<88, 233, 230, 174, 47, 92, 175, 80>>,
      <<88, 233, 230, 145, 75, 55, 141, 80>>, <<88, 233, 230, 144, 71, 143, 223, 80>>,
      <<88, 233, 230, 147, 78, 217, 169, 144>>, <<88, 233, 230, 146, 41, 85, 60, 113>>,
      <<88, 233, 230, 149, 6, 215, 232, 182>>, <<88, 233, 230, 148, 228, 95, 127, 116>>,
      <<88, 233, 230, 151, 53, 202, 86, 172>>, <<88, 233, 230, 150, 112, 119, 195, 219>>,
      <<88, 233, 230, 153, 19, 135, 195, 138>>, <<88, 233, 230, 152, 66, 253, 225, 226>>,
      <<88, 233, 230, 155, 238, 82, 253, 95>>, <<88, 233, 230, 154, 67, 60, 19, 94>>,
      <<88, 233, 230, 157, 236, 4, 67, 237>>, <<88, 233, 230, 156, 253, 95, 235, 59>>,
      <<88, 233, 230, 159, 170, 15, 198, 16>>, <<88, 233, 230, 158, 79, 250, 200, 128>>,
      <<88, 233, 230, 129, 203, 82, 161, 106>>, <<88, 233, 230, 128, 157, 56, 51, 148>>,
      <<88, 233, 230, 131, 249, 82, 41, 106>>, <<88, 233, 230, 130, 161, 149, 231, 74>>,
      <<88, 233, 230, 133, 164, 145, 26, 231>>, <<88, 233, 230, 132, 33, 92, 233, 160>>,
      <<88, 233, 230, 135, 146, 165, 229, 135>>, <<88, 233, 230, 134, 213, 50, 3, 218>>,
      <<88, 233, 230, 137, 169, 28, 185, 135>>, <<88, 233, 230, 136, 64, 80, 80, 27>>,
      <<88, 233, 230, 139, 179, 187, 5, 223>>, <<88, 233, 230, 138, 111, 198, 58, 112>>,
      <<88, 233, 230, 141, 23, 214, 57, 39>>, <<88, 233, 230, 140, 109, 73, 80, 72>>,
      <<88, 233, 230, 143, 152, 161, 35, 229>>, <<88, 233, 230, 142, 120, 32, 52, 126>>,
      <<88, 233, 230, 241, 97, 154, 80, 162>>, <<88, 233, 230, 240, 86, 47, 214, 72>>,
      <<88, 233, 230, 243, 234, 63, 42, 204>>, <<88, 233, 230, 242, 185, 164, 161, 33>>,
      <<88, 233, 230, 245, 195, 39, 39, 102>>, <<88, 233, 230, 244, 243, 255, 90, 37>>,
      <<88, 233, 230, 247, 247, 89, 2, 16>>, <<88, 233, 230, 246, 231, 238, 154, 137>>,
      <<88, 233, 230, 249, 169, 55, 160, 227>>, <<88, 233, 230, 248, 191, 10, 49, 137>>,
      <<88, 233, 230, 251, 72, 49, 61, 141>>, <<88, 233, 230, 250, 184, 141, 62, 18>>,
      <<88, 233, 230, 253, 131, 102, 184, 98>>, <<88, 233, 230, 252, 155, 152, 152, 197>>,
      <<88, 233, 230, 255, 240, 82, 215, 249>>, <<88, 233, 230, 254, 79, 184, 242, 174>>,
      <<88, 233, 230, 225, 123, 255, 188, 171>>, <<88, 233, 230, 224, 38, 171, 129, 10>>,
      <<88, 233, 230, 227, 208, 95, 79, 112>>, <<88, 233, 230, 226, 112, 40, 33, 242>>,
      <<88, 233, 230, 229, 132, 239, 60, 212>>, <<88, 233, 230, 228, 177, 168, 248, 250>>,
      <<88, 233, 230, 231, 132, 131, 204, 248>>, <<88, 233, 230, 230, 247, 155, 243, 202>>,
      <<88, 233, 230, 233, 156, 236, 186, 58>>, <<88, 233, 230, 232, 242, 10, 134, 122>>,
      <<88, 233, 230, 235, 246, 198, 114, 19>>, <<88, 233, 230, 234, 189, 52, 175, 27>>,
      <<88, 233, 230, 237, 238, 61, 105, 148>>, <<88, 233, 230, 236, 36, 117, 75, 185>>,
      <<88, 233, 230, 239, 185, 193, 208, 85>>, <<88, 233, 230, 238, 140, 207, 81, 230>>,
      <<88, 233, 230, 209, 155, 232, 208, 221>>, <<88, 233, 230, 208, 13, 184, 179, 209>>,
      <<88, 233, 230, 211, 93, 109, 139, 47>>, <<88, 233, 230, 210, 9, 192, 241, 240>>,
      <<88, 233, 230, 213, 222, 37, 39, 83>>, <<88, 233, 230, 212, 60, 254, 32, 119>>,
      <<88, 233, 230, 215, 218, 112, 90, 206>>, <<88, 233, 230, 214, 242, 150, 117, 241>>,
      <<88, 233, 230, 217, 111, 94, 25, 229>>, <<88, 233, 230, 216, 195, 116, 130, 173>>,
      <<88, 233, 230, 219, 55, 249, 209, 210>>, <<88, 233, 230, 218, 112, 154, 7, 235>>,
      <<88, 233, 230, 221, 89, 93, 184, 115>>, <<88, 233, 230, 220, 159, 131, 241, 46>>,
      <<88, 233, 230, 223, 24, 209, 125, 130>>, <<88, 233, 230, 222, 92, 62, 2, 157>>,
      <<88, 233, 230, 193, 202, 68, 229, 51>>, <<88, 233, 230, 192, 225, 158, 217, 98>>,
      <<88, 233, 230, 195, 182, 212, 168, 149>>, <<88, 233, 230, 194, 166, 176, 144, 47>>,
      <<88, 233, 230, 197, 23, 243, 238, 21>>, <<88, 233, 230, 196, 77, 137, 198, 93>>,
      <<88, 233, 230, 199, 108, 109, 250, 5>>, <<88, 233, 230, 198, 44, 64, 206, 121>>,
      <<88, 233, 230, 201, 232, 160, 189, 44>>, <<88, 233, 230, 200, 7, 180, 200, 116>>,
      <<88, 233, 230, 203, 221, 236, 221, 118>>, <<88, 233, 230, 202, 192, 188, 139, 137>>,
      <<88, 233, 230, 205, 3, 176, 174, 96>>, <<88, 233, 230, 204, 206, 21, 192, 54>>,
      <<88, 233, 230, 207, 115, 86, 177, 151>>, <<88, 233, 230, 206, 125, 210, 6, 84>>,
      <<88, 233, 230, 49, 168, 57, 81, 168>>, <<88, 233, 230, 48, 0, 218, 98, 13>>,
      <<88, 233, 230, 51, 108, 114, 221, 211>>, <<88, 233, 230, 50, 187, 190, 229, 81>>,
      <<88, 233, 230, 53, 152, 210, 202, 218>>, <<88, 233, 230, 52, 68, 6, 103, 213>>,
      <<88, 233, 230, 55, 184, 161, 91, 34>>, <<88, 233, 230, 54, 168, 133, 219, 4>>,
      <<88, 233, 230, 57, 191, 211, 160, 245>>, <<88, 233, 230, 56, 118, 192, 95, 130>>,
      <<88, 233, 230, 59, 140, 126, 87, 89>>, <<88, 233, 230, 58, 200, 13, 69, 52>>,
      <<88, 233, 230, 61, 100, 112, 3, 14>>, <<88, 233, 230, 60, 4, 159, 120, 141>>,
      <<88, 233, 230, 63, 211, 204, 137, 245>>, <<88, 233, 230, 62, 165, 46, 56, 8>>,
      <<88, 233, 230, 33, 116, 170, 198, 9>>, <<88, 233, 230, 32, 116, 14, 44, 126>>,
      <<88, 233, 230, 35, 168, 35, 192, 31>>, <<88, 233, 230, 34, 237, 186, 228, 202>>,
      <<88, 233, 230, 37, 63, 19, 189, 158>>, <<88, 233, 230, 36, 52, 152, 204, 5>>,
      <<88, 233, 230, 39, 232, 229, 48, 209>>, <<88, 233, 230, 38, 160, 31, 210, 240>>,
      <<88, 233, 230, 41, 134, 72, 201, 158>>, <<88, 233, 230, 40, 53, 49, 39, 243>>,
      <<88, 233, 230, 43, 116, 247, 71, 53>>, <<88, 233, 230, 42, 96, 44, 84, 176>>,
      <<88, 233, 230, 45, 208, 228, 165, 41>>, <<88, 233, 230, 44, 88, 251, 123, 223>>,
      <<88, 233, 230, 47, 105, 108, 119, 163>>, <<88, 233, 230, 46, 228, 63, 2, 163>>,
      <<88, 233, 230, 17, 203, 149, 30, 88>>, <<88, 233, 230, 16, 224, 244, 225, 146>>,
      <<88, 233, 230, 19, 168, 50, 153, 134>>, <<88, 233, 230, 18, 39, 186, 238, 79>>,
      <<88, 233, 230, 21, 83, 45, 175, 177>>, <<88, 233, 230, 20, 161, 163, 60, 7>>,
      <<88, 233, 230, 23, 36, 6, 49, 88>>, <<88, 233, 230, 22, 158, 34, 18, 131>>,
      <<88, 233, 230, 25, 36, 69, 31, 154>>, <<88, 233, 230, 24, 175, 155, 102, 78>>,
      <<88, 233, 230, 27, 156, 150, 111, 161>>, <<88, 233, 230, 26, 244, 249, 197, 164>>,
      <<88, 233, 230, 29, 32, 88, 251, 138>>, <<88, 233, 230, 28, 69, 176, 217, 178>>,
      <<88, 233, 230, 31, 155, 192, 179, 252>>, <<88, 233, 230, 30, 85, 154, 212, 217>>,
      <<88, 233, 230, 1, 150, 79, 236, 191>>, <<88, 233, 230, 0, 148, 147, 4, 81>>,
      <<88, 233, 230, 3, 122, 79, 230, 59>>, <<88, 233, 230, 2, 243, 239, 186, 42>>,
      <<88, 233, 230, 5, 175, 70, 200, 71>>, <<88, 233, 230, 4, 207, 80, 191, 194>>,
      <<88, 233, 230, 7, 32, 24, 157, 48>>, <<88, 233, 230, 6, 173, 77, 245, 250>>,
      <<88, 233, 230, 9, 180, 148, 241, 193>>, <<88, 233, 230, 8, 132, 145, 88, 216>>,
      <<88, 233, 230, 11, 44, 54, 26, 127>>, <<88, 233, 230, 10, 34, 58, 189, 181>>,
      <<88, 233, 230, 13, 27, 141, 231, 23>>, <<88, 233, 230, 12, 251, 116, 239, 37>>,
      <<88, 233, 230, 15, 110, 157, 133, 150>>, <<88, 233, 230, 14, 153, 239, 48, 141>>,
      <<88, 233, 230, 113, 147, 45, 204, 23>>, <<88, 233, 230, 112, 154, 44, 128, 42>>,
      <<88, 233, 230, 115, 18, 104, 186, 87>>, <<88, 233, 230, 114, 156, 183, 27, 29>>,
      <<88, 233, 230, 117, 237, 21, 57, 253>>, <<88, 233, 230, 116, 227, 253, 29, 71>>,
      <<88, 233, 230, 119, 201, 124, 219, 5>>, <<88, 233, 230, 118, 123, 95, 46, 9>>,
      <<88, 233, 230, 121, 176, 175, 176, 77>>, <<88, 233, 230, 120, 86, 148, 242, 141>>,
      <<88, 233, 230, 123, 238, 137, 232, 158>>, <<88, 233, 230, 122, 112, 192, 106, 75>>,
      <<88, 233, 230, 125, 144, 73, 53, 95>>, <<88, 233, 230, 124, 2, 122, 170, 72>>,
      <<88, 233, 230, 127, 219, 209, 118, 204>>, <<88, 233, 230, 126, 84, 143, 73, 236>>,
      <<88, 233, 230, 97, 86, 38, 224, 71>>, <<88, 233, 230, 96, 48, 174, 33, 73>>,
      <<88, 233, 230, 99, 182, 15, 55, 70>>, <<88, 233, 230, 98, 149, 244, 111, 59>>,
      <<88, 233, 230, 101, 53, 160, 39, 105>>, <<88, 233, 230, 100, 74, 202, 241, 209>>,
      <<88, 233, 230, 103, 128, 233, 150, 145>>, <<88, 233, 230, 102, 198, 174, 228, 36>>,
      <<88, 233, 230, 105, 143, 141, 137, 163>>, <<88, 233, 230, 104, 16, 161, 177, 116>>,
      <<88, 233, 230, 107, 226, 205, 168, 128>>, <<88, 233, 230, 106, 228, 188, 148, 220>>,
      <<88, 233, 230, 109, 80, 120, 66, 216>>, <<88, 233, 230, 108, 51, 228, 20, 171>>,
      <<88, 233, 230, 111, 70, 209, 176, 228>>, <<88, 233, 230, 110, 193, 160, 13, 28>>,
      <<88, 233, 230, 81, 136, 200, 103, 166>>, <<88, 233, 230, 80, 6, 68, 229, 47>>,
      <<88, 233, 230, 83, 203, 108, 93, 152>>, <<88, 233, 230, 82, 63, 41, 61, 137>>,
      <<88, 233, 230, 85, 101, 129, 179, 249>>, <<88, 233, 230, 84, 202, 250, 152, 71>>,
      <<88, 233, 230, 87, 51, 190, 251, 161>>, <<88, 233, 230, 86, 12, 196, 53, 119>>,
      <<88, 233, 230, 89, 44, 86, 129, 141>>, <<88, 233, 230, 88, 237, 222, 182, 25>>,
      <<88, 233, 230, 91, 70, 187, 156, 235>>, <<88, 233, 230, 90, 209, 116, 152, 44>>,
      <<88, 233, 230, 93, 21, 45, 132, 249>>, <<88, 233, 230, 92, 48, 37, 217, 227>>,
      <<88, 233, 230, 95, 89, 178, 183, 91>>, <<88, 233, 230, 94, 108, 243, 155, 0>>,
      <<88, 233, 230, 65, 215, 89, 168, 73>>, <<88, 233, 230, 64, 79, 174, 249, 219>>,
      <<88, 233, 230, 67, 107, 26, 16, 54>>, <<88, 233, 230, 66, 225, 8, 152, 168>>,
      <<88, 233, 230, 69, 138, 179, 203, 27>>, <<88, 233, 230, 68, 46, 83, 203, 189>>,
      <<88, 233, 230, 71, 11, 249, 47, 103>>, <<88, 233, 230, 70, 100, 212, 131, 166>>,
      <<88, 233, 230, 73, 66, 177, 7, 88>>, <<88, 233, 230, 72, 146, 202, 41, 209>>,
      <<88, 233, 230, 75, 240, 65, 73, 2>>, <<88, 233, 230, 74, 144, 90, 83, 127>>,
      <<88, 233, 230, 77, 210, 247, 78, 246>>, <<88, 233, 230, 76, 31, 146, 239, 97>>,
      <<88, 233, 230, 79, 92, 241, 80, 36>>, <<88, 233, 230, 78, 214, 112, 22, 75>>
    >>

\* what AES-128-CCM yields for them
BatteryVectors ==
    {[key |-> Key1,
      nonce |-> <<178, 24, 141, 56, 193, 164, 11, 22, 26, 24, 88>>,
      aad |-> <<17>>, mac_len |-> 4,
      ct |-> SubSeq(BatteryPayloads[b + 1], 2, 4),
      tag |-> SubSeq(BatteryPayloads[b + 1], 5, 8),
      pt |-> <<133, 94, b>>] : b \in 0..255}

KnownVectors == CcmVectors \cup BatteryVectors

\* AES.new(key, AES.MODE_CCM, nonce=nonce, mac_len=mac_len), update(aad),
\* decrypt_and_verify(ct, tag): the plaintext, or None for the ValueError
decrypt_and_verify(key, nonce, mac_len, aad, ct, tag) ==
    LET hit == {v \in KnownVectors :
                   /\ v.tag = tag /\ v.ct = ct /\ v.nonce = nonce
                   /\ v.key = key /\ v.mac_len = mac_len /\ v.aad = aad}
    IN  IF hit = {} THEN None ELSE Some((CHOOSE v \in hit : TRUE).pt)

\* nonce = b"".join([atc_mac[::-1], len_byte, uuid_bytes, data[:1]])
make_nonce(data, atc_mac) ==
    Reverse(atc_mac) \o <<Len(data) + 3>> \o <<22, 26, 24>> \o SubSeq(data, 1, 1)

\* AES.new(key, AES.MODE_CCM, nonce=nonce, mac_len=4) takes a nonce of
\* 7 to 13 bytes and raises ValueError for any other length
NonceLengths == 7..13

\* the branch of _decrypt_atc behind the two key checks; the path
\* "bad_nonce" is the ValueError of AES.new, raised outside the try block
decrypt_checked(s, data, atc_mac) ==
    LET nonce         == make_nonce(data, atc_mac)
        cipherpayload == SubSeq(data, 2, Len(data) - 4)
        aad           == <<17>>
        token         == SubSeq(data, Len(data) - 3, Len(data))
        after(decrypted) ==
            IF decrypted = None
            THEN \* except ValueError: return None
                 [s |-> s, out |-> None, path |-> "auth_fail"]
            ELSE [s |-> [s EXCEPT !.bindkey_verified = TRUE],
                  out |-> decrypted, path |-> "ok"]
    IN  IF Len(nonce) \notin NonceLengths
        THEN [s |-> s, out |-> None, path |-> "bad_nonce"]
        ELSE after(decrypt_and_verify(s.bindkey[1], nonce, 4, aad,
                                      cipherpayload, token))

\* _decrypt_atc with the flag of the key-length check inverted
decrypt_atc_flag_inverted(s, data, atc_mac) ==
    IF s.bindkey = None \/ s.bindkey = Some(<<>>)
    THEN [s |-> [s EXCEPT !.bindkey_verified = FALSE],
          out |-> None, path |-> "no_key"]
    ELSE IF Len(s.bindkey[1]) # 16
    THEN [s |-> [s EXCEPT !.bindkey_verified = TRUE],
          out |-> None, path |-> "bad_key_len"]
    ELSE decrypt_checked(s, data, atc_mac)

\* ATCBluetoothDeviceData._decrypt_atc(data, atc_mac)
decrypt_atc(s, data, atc_mac) ==
    IF s.bindkey = None \/ s.bindkey = Some(<<>>)
    THEN [s |-> [s EXCEPT !.bindkey_verified = FALSE],
          out |-> None, path |-> "no_key"]
    ELSE IF Len(s.bindkey[1]) # 16
    THEN [s |-> [s EXCEPT !.bindkey_verified = FALSE],
          out |-> None, path |-> "bad_key_len"]
    ELSE decrypt_checked(s, data, atc_mac)

-----------------------------------------------------------------------------
(* _parse_atc: a branch yields either go = FALSE (the early "return False") *)
(* or go = TRUE with the firmware label, and control reaches the end of    *)
(* the function.  path names the return statement taken; raised tells     *)
(* that an exception of _decrypt_atc leaves the function instead.          *)

Reject(s, why) ==
    [go |-> FALSE, raised |-> FALSE, s |-> s, firmware |-> None, path |-> why]
Raise(s, why) ==
    [go |-> FALSE, raised |-> TRUE, s |-> s, firmware |-> None, path |-> why]
Accept(s, firmware) ==
    [go |-> TRUE, raised |-> FALSE, s |-> s, firmware |-> Some(firmware),
     path |-> "ok"]

\* msg_length == 15: ATC (pvvx/custom) format without encryption
parse_pvvx(s, plat, source_mac, data) ==
    LET atc_mac_reversed == SubSeq(data, 1, 6)
        atc_mac == Reverse(atc_mac_reversed)
        d    == From(data, 6)
        temp == S16LE(d, 1)
        hum  == U16LE(d, 3)
        volt == U16LE(d, 5)
        bat  == d[7]
        s1 == update_predefined_sensor(s, "temperature", temp)
        s2 == update_predefined_sensor(s1, "humidity", hum)
        s3 == update_predefined_sensor(s2, "voltage", volt)
        s4 == update_predefined_sensor(s3, "battery", bat)
    IN  IF plat # "darwin" /\ atc_mac # source_mac
        THEN Reject(s, "mismatch")
        ELSE Accept(s4, "ATC (pvvx)")

\* msg_length == 13: ATC1441 format without encryption
parse_atc1441(s, plat, source_mac, data) ==
    LET atc_mac == SubSeq(data, 1, 6)
        d    == From(data, 6)
        temp == S16BE(d, 1)
        hum  == d[3]
        bat  == d[4]
        volt == U16BE(d, 5)
        s1 == update_predefined_sensor(s, "temperature", temp * 10)
        s2 == update_predefined_sensor(s1, "humidity", hum * 100)
        s3 == update_predefined_sensor(s2, "voltage", volt)
        s4 == update_predefined_sensor(s3, "battery", bat)
    IN  IF plat # "darwin" /\ atc_mac # source_mac
        THEN Reject(s, "mismatch")
        ELSE Accept(s4, "ATC (atc1441)")

\* msg_length == 11: ATC pvvx/custom format with encryption
parse_pvvx_encrypted(s, plat, source_mac, data) ==
    IF plat = "darwin"
    THEN Reject(s, "unsupported")
    ELSE
      LET s0  == [s EXCEPT !.mac_known = TRUE, !.encrypted = Some(TRUE)]
          after(dec) ==
              LET d    == dec.out[1]
                  temp == S16LE(d, 1)
                  hum  == U16LE(d, 3)
                  bat  == d[5]
                  s1 == update_predefined_sensor(dec.s, "temperature", temp)
                  s2 == update_predefined_sensor(s1, "humidity", hum)
                  s3 == update_predefined_sensor(s2, "battery", bat)
              IN  IF dec.path = "bad_nonce"
                  THEN Raise(dec.s, dec.path)
                  ELSE IF dec.out = None
                  THEN Reject(dec.s, dec.path)
                  ELSE Accept(s3, "ATC (pvvx encrypted)")
      IN  after(decrypt_atc(s0, data, source_mac))

\* the branch of length 8 without the clamp of the battery value
decode_atc1441_encrypted_no_clamp(s, source_mac, data) ==
    LET s0  == [s EXCEPT !.mac_known = TRUE, !.encrypted = Some(TRUE)]
        after(dec) ==
            LET d    == dec.out[1]
                temp == 50 * d[1] - 4000
                hum  == 50 * d[2]
                bat  == d[3] % 128
                s1 == update_predefined_sensor(dec.s, "temperature", temp)
                s2 == update_predefined_sensor(s1, "humidity", hum)
                s3 == update_predefined_sensor(s2, "battery", bat)
            IN  IF dec.path = "bad_nonce"
                THEN Raise(dec.s, dec.path)
                ELSE IF dec.out = None
                THEN Reject(dec.s, dec.path)
                ELSE Accept(s3, "ATC (atc1441 encrypted)")
    IN  after(decrypt_atc(s0, data, source_mac))

\* msg_length == 8, behind the platform check
decode_atc1441_encrypted(s, source_mac, data) ==
    LET s0  == [s EXCEPT !.mac_known = TRUE, !.encrypted = Some(TRUE)]
        after(dec) ==
            LET d    == dec.out[1]
                temp == 50 * d[1] - 4000
                hum  == 50 * d[2]
                raw  == d[3] % 128
                bat  == IF raw > 100 THEN 100 ELSE raw
                s1 == update_predefined_sensor(dec.s, "temperature", temp)
                s2 == update_predefined_sensor(s1, "humidity", hum)
                s3 == update_predefined_sensor(s2, "battery", bat)
            IN  IF dec.path = "bad_nonce"
                THEN Raise(dec.s, dec.path)
                ELSE IF dec.out = None
                THEN Reject(dec.s, dec.path)
                ELSE Accept(s3, "ATC (atc1441 encrypted)")
    IN  after(decrypt_atc(s0, data, source_mac))

\* the branch of length 8 without its platform check
parse_atc1441_encrypted_unchecked(s, plat, source_mac, data) ==
    decode_atc1441_encrypted(s, source_mac, data)

\* msg_length == 8: atc1441 format with encryption
parse_atc1441_encrypted(s, plat, source_mac, data) ==
    IF plat = "darwin"
    THEN Reject(s, "unsupported")
    ELSE decode_atc1441_encrypted(s, source_mac, data)

\* the chain with an else branch that falls through to the end
dispatch_no_else(s, plat, source_mac, data) ==
    LET msg_length == Len(data)
    IN  IF msg_length = 15 THEN parse_pvvx(s, plat, source_mac, data)
        ELSE IF msg_length = 13 THEN parse_atc1441(s, plat, source_mac, data)
        ELSE IF msg_length = 11 THEN parse_pvvx_encrypted(s, plat, source_mac, data)
        ELSE IF msg_length = 8 THEN parse_atc1441_encrypted(s, plat, source_mac, data)
        ELSE Accept(s, "ATC")

\* the if/elif chain on msg_length
dispatch(s, plat, source_mac, data) ==
    LET msg_length == Len(data)
    IN  IF msg_length = 15 THEN parse_pvvx(s, plat, source_mac, data)
        ELSE IF msg_length = 13 THEN parse_atc1441(s, plat, source_mac, data)
        ELSE IF msg_length = 11 THEN parse_pvvx_encrypted(s, plat, source_mac, data)
        ELSE IF msg_length = 8 THEN parse_atc1441_encrypted(s, plat, source_mac, data)
        ELSE Reject(s, "unrecognized")

\* the end of _parse_atc with the title made of the name alone
set_identity_name_only(s, service_info, name, firmware) ==
    [s EXCEPT !.title = Some(name),
              !.device_name = Some(name),
              !.sw_version = Some(firmware)]

\* the end of _parse_atc: set_title, set_device_name, set_device_sw_version
set_identity(s, service_info, name, firmware) ==
    LET identifier == service_info.address
    IN  [s EXCEPT !.title = Some(FormatTitle(name, identifier)),
                  !.device_name = Some(FormatTitle(name, identifier)),
                  !.sw_version = Some(firmware)]

\* the address handling at the head of _parse_atc: the bytes of source_mac,
\* or None when the statement raises (IndexError of mac_readable[2],
\* ValueError of bytes.fromhex)
source_mac_of(address) ==
    IF Len(address) # 17 /\ Len(address) < 3
    THEN None
    ELSE LET mac_readable ==
                 IF Len(address) # 17 /\ address[3] # ":"
                 THEN <<"0","0",":","0","0",":","0","0",":",
                        "0","0",":","0","0",":","0","0">>
                 ELSE address
         IN  fromhex(Remove(mac_readable, ":"))

\* ATCBluetoothDeviceData._parse_atc(service_info, name, data):
\* ret is "True", "False" or "raise"
parse_atc(s, plat, service_info, name, data) ==
    LET finish(r) ==
            IF r.go
            THEN [s |-> set_identity(r.s, service_info, name, r.firmware[1]),
                  ret |-> "True", path |-> r.path]
            ELSE IF r.raised
            THEN [s |-> r.s, ret |-> "raise", path |-> r.path]
            ELSE [s |-> r.s, ret |-> "False", path |-> r.path]
        body(source_mac) ==
            IF source_mac = None
            THEN [s |-> s, ret |-> "raise", path |-> "raise"]
            ELSE finish(dispatch(s, plat, source_mac[1], data))
    IN  body(source_mac_of(service_info.address))

\* an iteration that caches the advertisement whatever _parse_atc returns
loop_body_always_caches(s, plat, service_info, data) ==
    LET after(r) ==
            [r EXCEPT !.s = IF r.ret # "raise"
                            THEN [r.s EXCEPT !.last_service_info = Some(service_info)]
                            ELSE r.s]
    IN  after(parse_atc(s, plat, service_info, service_info.name, data))

\* one iteration of the loop of _start_update
loop_body(s, plat, service_info, data) ==
    LET after(r) ==
            [r EXCEPT !.s = IF r.ret = "True"
                            THEN [r.s EXCEPT !.last_service_info = Some(service_info)]
                            ELSE r.s]
    IN  after(parse_atc(s, plat, service_info, service_info.name, data))

\* the loop of _start_update from its i-th entry on; an exception ends it.
\* Yields the session and one record per entry reached.
RECURSIVE loop(_, _, _, _, _)
loop(s, plat, service_info, i, steps) ==
    IF i > Len(service_info.service_data)
    THEN [s |-> s, steps |-> steps]
    ELSE LET data == service_info.service_data[i]
             after(r) ==
                 LET step == [data |-> data, ret |-> r.ret, path |-> r.path,
                              pre |-> s, post |-> r.s]
                 IN  IF r.ret = "raise"
                     THEN [s |-> r.s, steps |-> Append(steps, step)]
                     ELSE loop(r.s, plat, service_info, i + 1, Append(steps, step))
         IN  after(loop_body(s, plat, service_info, data))

\* ATCBluetoothDeviceData._start_update(service_info)
start_update(s, plat, service_info) ==
    LET s0 == [s EXCEPT !.manufacturer = Some("ATC"),
                        !.device_type = Some("ATC sensor")]
    IN  loop(s0, plat, service_info, 1, <<>>)

-----------------------------------------------------------------------------
(* The state machine *)

\* the session object, gathered from the variables
Self ==
    [bindkey           |-> bindkey,
     is_encrypted      |-> is_encrypted,
     encrypted         |-> encrypted,
     mac_known         |-> mac_known,
     bindkey_verified  |-> bindkey_verified,
     pending           |-> pending,
     last_service_info |-> last_service_info,
     sensors           |-> sensors,
     title             |-> title,
     device_name       |-> device_name,
     sw_version        |-> sw_version,
     manufacturer      |-> manufacturer,
     device_type       |-> device_type]

\* the variables after the session object has become s
Becomes(s) ==
    /\ bindkey'           = s.bindkey
    /\ is_encrypted'      = s.is_encrypted
    /\ encrypted'         = s.encrypted
    /\ mac_known'         = s.mac_known
    /\ bindkey_verified'  = s.bindkey_verified
    /\ pending'           = s.pending
    /\ last_service_info' = s.last_service_info
    /\ sensors'           = s.sensors
    /\ title'             = s.title
    /\ device_name'       = s.device_name
    /\ sw_version'        = s.sw_version
    /\ manufacturer'      = s.manufacturer
    /\ device_type'       = s.device_type

EncryptedLengths == {11, 8}
KnownLengths == {15, 13, 11, 8}
\* the return paths of _decrypt_atc that yield no plaintext
DecryptFailures == {"no_key", "bad_key_len", "auth_fail"}

\* History of a session: nothing of it is read by the parser.
\*   aead_ok         an authenticated decryption has succeeded
\*   seen_encrypted  a payload of an encrypted format has gone through the
\*                   encrypted branch of _parse_atc
\*   seen_payload    _parse_atc has returned for some payload
\*   last_good       the last advertisement with a successfully parsed payload
\*   replaced_verified  the session replaced one whose key was verified
NoHistory ==
    [aead_ok |-> FALSE, seen_encrypted |-> FALSE, seen_payload |-> FALSE,
     last_good |-> None, replaced_verified |-> FALSE]

Record(h, service_info, steps) ==
    LET idx == 1..Len(steps)
    IN  [aead_ok |->
             h.aead_ok \/ \E i \in idx :
                 Len(steps[i].data) \in EncryptedLengths /\ steps[i].path = "ok",
         seen_encrypted |->
             h.seen_encrypted \/ \E i \in idx :
                 /\ Len(steps[i].data) \in EncryptedLengths
                 /\ steps[i].path \in DecryptFailures \cup {"ok", "bad_nonce"},
         seen_payload |->
             h.seen_payload \/ \E i \in idx : steps[i].ret \in {"True", "False"},
         last_good |->
             IF \E i \in idx : steps[i].ret = "True"
             THEN Some(service_info) ELSE h.last_good,
         replaced_verified |-> h.replaced_verified]

NoTrace == [service_info |-> None, steps |-> <<>>]

Init ==
    /\ platform \in Platforms
    /\ \E key \in Keys :
         LET s == init(platform, key)
         IN  /\ bindkey = s.bindkey
             /\ is_encrypted = s.is_encrypted
             /\ encrypted = s.encrypted
             /\ mac_known = s.mac_known
             /\ bindkey_verified = s.bindkey_verified
             /\ pending = s.pending
             /\ last_service_info = s.last_service_info
             /\ sensors = s.sensors
             /\ title = s.title
             /\ device_name = s.device_name
             /\ sw_version = s.sw_version
             /\ manufacturer = s.manufacturer
             /\ device_type = s.device_type
    /\ trace = NoTrace
    /\ hist = NoHistory

\* the caller hands one advertisement to the session (_start_update)
Update(service_info) ==
    \E r \in {start_update(Self, platform, service_info)} :
        /\ Becomes(r.s)
        /\ trace' = [service_info |-> Some(service_info), steps |-> r.steps]
        /\ hist' = Record(hist, service_info, r.steps)
        /\ UNCHANGED platform

\* the caller replaces the session by a new one made with another key
\* (__init__): the parser has no other way to change the key
Construct(key) ==
    /\ Becomes(init(platform, key))
    /\ trace' = NoTrace
    /\ hist' = [NoHistory EXCEPT !.replaced_verified = bindkey_verified]
    /\ UNCHANGED platform

Next ==
    \/ \E service_info \in ServiceInfos : Update(service_info)
    \/ \E key \in Keys : Construct(key)

Spec == Init /\ [][Next]_vars

\* The advertisements of BatteryPayloads, from the device they are sealed for
BatteryInfos ==
    {[address |-> AddrColon, name |-> NameATC,
      service_data |-> <<BatteryPayloads[b + 1]>>] : b \in 0..255}

\* a new session is handed one of them as its first advertisement
NextBattery ==
    \E service_info \in BatteryInfos :
        /\ trace = NoTrace
        /\ Update(service_info)

SpecBattery == Init /\ [][NextBattery]_vars

-----------------------------------------------------------------------------
(* Properties *)

\* the entries of the last advertisement that _parse_atc was called for
Steps == {trace.steps[i] : i \in 1..Len(trace.steps)}

\* C1: whenever the decryption helper fails for a payload of an encrypted
\* format (no key, key not 16 bytes, tag not verified), bindkey_verified is
\* false right after that call, also after an earlier successful decryption.
C1_FailedDecryptClearsVerified ==
    \A st \in Steps :
        (Len(st.data) \in EncryptedLengths /\ st.path \in DecryptFailures)
            => st.post.bindkey_verified = FALSE

\* C2: bindkey_verified is true only if an authenticated decryption has
\* succeeded since the session was made with its key; it is false in a
\* session that has just been made, also one that replaces a verified one.
C2_VerifiedOnlyAfterAeadSuccess ==
    /\ bindkey_verified => hist.aead_ok
    /\ trace = NoTrace => ~bindkey_verified

\* a session that replaced a verified one has verified its own, other key
C2_Witness ==
    /\ hist.replaced_verified
    /\ bindkey_verified
    /\ bindkey = Some(Key2)

\* C3: a payload whose length is none of 15, 13, 11, 8 is not decoded
\* successfully and leaves the whole session as it was, on every platform.
C3_UnknownLengthChangesNothing ==
    \A st \in Steps :
        Len(st.data) \notin KnownLengths
            => /\ st.ret # "True"
               /\ st.post = st.pre

\* a payload of unknown length was refused by a session that holds a
\* verified key, a cached advertisement and measurements
C3_Witness ==
    \E st \in Steps :
        /\ Len(st.data) \notin KnownLengths
        /\ st.ret = "False"
        /\ st.pre.bindkey_verified
        /\ st.pre.last_service_info # None
        /\ st.pre.sensors["voltage"] # None

FirmwareOfLength(n) ==
    CASE n = 15 -> "ATC (pvvx)"
      [] n = 13 -> "ATC (atc1441)"
      [] n = 11 -> "ATC (pvvx encrypted)"
      [] n = 8  -> "ATC (atc1441 encrypted)"

\* C4: a successful decode is of a payload of length 15, 13, 11 or 8, sets
\* the firmware label that belongs to the length and the title
\* "{name} ({address})"; the formats without encryption report temperature,
\* humidity, battery and voltage, the encrypted ones temperature, humidity
\* and battery and write no voltage.
C4_SuccessSetsLabelTitleAndKinds ==
    \A st \in Steps :
        st.ret = "True" =>
            LET n  == Len(st.data)
                si == trace.service_info[1]
            IN  /\ n \in KnownLengths
                /\ st.post.sw_version = Some(FirmwareOfLength(n))
                /\ st.post.title =
                       Some(si.name \o <<" ", "(">> \o si.address \o <<")">>)
                /\ \A k \in {"temperature", "humidity", "battery"} :
                       st.post.sensors[k] # None
                /\ n \in {15, 13} => st.post.sensors["voltage"] # None
                /\ n \in EncryptedLengths =>
                       st.post.sensors["voltage"] = st.pre.sensors["voltage"]

\* an encrypted payload was decoded by a session without any voltage
C4_Witness ==
    \E st \in Steps :
        /\ st.ret = "True"
        /\ Len(st.data) = 8
        /\ st.post.sw_version = Some("ATC (atc1441 encrypted)")
        /\ st.post.sensors["voltage"] = None
        /\ st.post.sensors["battery"] = Some(100)

\* the address is six hexadecimal octets delimited by colons or by dashes
IsMacText(address) ==
    /\ Len(address) = 17
    /\ \A i \in 1..17 :
          IF i % 3 = 0 THEN address[i] \in {":", "-"} ELSE address[i] \in HexChars

\* the six bytes of such an address
MacBytes(address) ==
    [i \in 1..6 |-> 16 * HexVal[address[3 * i - 2]] + HexVal[address[3 * i - 1]]]

\* the identifier a payload without encryption embeds
EmbeddedMac(data) ==
    IF Len(data) = 15
    THEN [i \in 1..6 |-> data[7 - i]]
    ELSE [i \in 1..6 |-> data[i]]

\* C5: away from darwin a payload of length 15 or 13 whose embedded
\* identifier differs from the six bytes of the advertisement's address
\* fails without raising and changes no measurement, title, firmware label
\* or cached advertisement, and one whose identifier equals them decodes
\* successfully; on darwin no such payload is rejected for a mismatch.
C5_IdentifierReconciliation ==
    \A st \in Steps :
        Len(st.data) \in {15, 13} =>
            LET address == trace.service_info[1].address
            IN  /\ (platform # "darwin" /\ IsMacText(address)
                        /\ EmbeddedMac(st.data) # MacBytes(address))
                       => /\ st.ret = "False"
                          /\ st.post.sensors = st.pre.sensors
                          /\ st.post.title = st.pre.title
                          /\ st.post.sw_version = st.pre.sw_version
                          /\ st.post.last_service_info = st.pre.last_service_info
                /\ (platform # "darwin" /\ IsMacText(address)
                        /\ EmbeddedMac(st.data) = MacBytes(address))
                       => st.ret = "True"
                /\ platform = "darwin" => st.path # "mismatch"

\* C6: a decode call ends by reporting success or failure and never raises,
\* for colon-delimited, dash-delimited and opaque addresses alike; a session
\* that has failed to decode still decodes a later valid advertisement.
C6_NeverRaises ==
    \A st \in Steps :
        /\ st.ret \in {"True", "False"}
        /\ (platform = "linux" /\ st.data \in {P13, P15}
                /\ trace.service_info[1].address = AddrColon)
               => st.ret = "True"

\* C7: is_encrypted is true once the session has processed a payload of an
\* encrypted format, and false before.
C7_IsEncryptedOnceSeen ==
    is_encrypted = hist.seen_encrypted

\* C8: pending is true in a new session and false once the session has
\* processed a payload.
C8_PendingUntilFirstPayload ==
    pending = ~hist.seen_payload

\* C9: on darwin a payload of an encrypted format is not decoded, no
\* decryption is attempted for it, and it leaves the session as it was,
\* whatever the key.
C9_DarwinRejectsEncrypted ==
    \A st \in Steps :
        (platform = "darwin" /\ Len(st.data) \in EncryptedLengths)
            => /\ st.ret # "True"
               /\ st.path \notin DecryptFailures \cup {"ok"}
               /\ st.post = st.pre

\* darwin refused an encrypted payload although the session has its key
C9_Witness ==
    \E st \in Steps :
        /\ platform = "darwin"
        /\ st.data = P8
        /\ st.path = "unsupported"
        /\ st.ret = "False"
        /\ bindkey = Some(Key1)
        /\ st.pre.last_service_info # None

\* C10: the cached advertisement is the last one of which a payload was
\* parsed successfully, None before any; an advertisement of which no
\* payload was parsed successfully leaves the cache as it was.
C10_CacheIsLastGoodAdvertisement ==
    /\ last_service_info = hist.last_good
    /\ (trace.steps # <<>> /\ \A st \in Steps : st.ret # "True")
           => last_service_info = trace.steps[1].pre.last_service_info

\* an advertisement with a good and a bad payload is cached; a failed one
\* after it would leave it there
C10_Witness ==
    /\ trace.service_info # None
    /\ last_service_info # None
    /\ last_service_info # trace.service_info
    /\ Len(last_service_info[1].service_data) = 2
    /\ \E st \in Steps : st.path = "auth_fail"

\* C11: on darwin mac_known is false in a new session and true once the
\* session has successfully decoded a payload of length 15 or 13, the
\* formats that embed the identifier; on every other platform it is true
\* in every state.
C11_MacKnownOnceEmbedded ==
    /\ platform # "darwin" => mac_known
    /\ (platform = "darwin" /\ trace = NoTrace) => ~mac_known
    /\ (platform = "darwin"
            /\ \E st \in Steps : st.ret = "True" /\ Len(st.data) \in {15, 13})
           => mac_known

\* C12: for every value 0..255 of the third plaintext byte of a payload of
\* length 8, the battery reported is the smaller of the byte's low seven
\* bits and 100: never above 100, and the same with the high bit set.
C12_BatteryIsLowBitsClampedTo100 ==
    \A st \in Steps :
        \A b \in 0..255 :
            (st.data = BatteryPayloads[b + 1] /\ st.ret = "True") =>
                LET low == b % 128
                IN  /\ st.post.sensors["battery"] =
                           Some(IF low < 100 THEN low ELSE 100)
                    /\ st.post.sensors["battery"][1] <= 100

\* the plaintext byte FF (low bits 127, high bit set) was reported as 100
C12_Witness ==
    \E st \in Steps :
        /\ st.data = BatteryPayloads[256]
        /\ st.ret = "True"
        /\ st.path = "ok"
        /\ st.post.sensors["battery"] = Some(100)

====
